---------------------------- MODULE Spec2Model ----------------------------
(***************************************************************************)
(* ptCrypt/Asymmetric/RSA.py as one sequential process: the RSA            *)
(* key-material generation of FIPS 186-4, Appendix B.3 and C.9 (getSeed,   *)
(* the four prime-pair generators and the auxiliary-prime combiner), the   *)
(* RSA primitives of PKCS#1 and the OAEP codec with its mask generation    *)
(* function.                                                               *)
(*                                                                         *)
(* SCALE.  The program works on 512..1536-bit integers; TLC's integers are *)
(* 32 bits wide.  Every length literal of the source is therefore a named  *)
(* definition holding a scaled-down value, and every formula of the source *)
(* is kept as written over those names:                                    *)
(*     key lengths 1024 / 2048 / 3072        ->  N1024 / N2048 / N3072     *)
(*     distance exponent 100 (N // 2 - 100)  ->  DistanceBits              *)
(*     exponent window 2^16 < e < 2^256      ->  EMinBits / EMaxBits       *)
(* The rational 665857/470832 and the retry factor 5 keep their values.    *)
(*                                                                         *)
(* ptCrypt.Math (base, primality) and ptCrypt.Util.keys are not part of    *)
(* the sources at hand; they are modelled from their interface in the      *)
(* specification: gcd and the modular inverse exactly, millerRabin by the  *)
(* answer it gives up to its error probability, shaweTaylor and            *)
(* ifcProvablePrime as black boxes that may fail or return any prime of    *)
(* the requested length together with the successor seed.                  *)
(***************************************************************************)
EXTENDS Integers, Sequences, FiniteSets, TLC

(***************************************************************************)
(* Scaled literals of the source                                           *)
(***************************************************************************)
N1024 == 10
N2048 == 14
N3072 == 24
DistanceBits == 4
EMinBits == 2
EMaxBits == 4

(* 665857/470832 = 1.41421356237 approximates sqrt(2); 5 * (N // 2) tries *)
Sqrt2Num == 665857
Sqrt2Den == 470832
RetryFactor == 5

(***************************************************************************)
(* Bounds of the model                                                     *)
(***************************************************************************)
(* uncounted redraws of one search are counted up to this many             *)
MaxSkipped == 2
(* seed-consuming sub-calls of one run: the successor seed grows without   *)
(* bound in the retry loops of the source                                  *)
MaxSeedSteps == 6

(* Python's None for a value that is not an integer *)
None == 0 - 1

(***************************************************************************)
(* Integer helpers: Python built-ins and ptCrypt.Math.base                 *)
(***************************************************************************)
abs(x) == IF x < 0 THEN 0 - x ELSE x

(* int.bit_length() *)
RECURSIVE bit_length(_)
bit_length(x) == IF x = 0 THEN 0 ELSE 1 + bit_length(abs(x) \div 2)

(* a | b on non-negative integers *)
RECURSIVE BitOr(_, _)
BitOr(a, b) ==
    IF a = 0 THEN b
    ELSE IF b = 0 THEN a
    ELSE ((a % 2) + (b % 2) - (a % 2) * (b % 2)) + 2 * BitOr(a \div 2, b \div 2)

(* secrets.randbits(k): every k-bit outcome *)
randbits(k) == 0 .. (2 ^ k - 1)

(* base.gcd *)
RECURSIVE gcd(_, _)
gcd(a, b) == IF b = 0 THEN abs(a) ELSE gcd(b, a % b)

(* pow(a, -1, m) *)
ModInverse(a, m) == CHOOSE k \in 0 .. (m - 1) : (k * a) % m = 1 % m

RECURSIVE NoDivisorFrom(_, _)
NoDivisorFrom(n, d) ==
    IF d * d > n THEN TRUE
    ELSE IF n % d = 0 THEN FALSE
    ELSE NoDivisorFrom(n, d + 1)

(* primality.millerRabin(n, rounds): the rounds only lower the error      *)
(* probability, which the model takes as zero                              *)
millerRabin(n) == n > 1 /\ NoDivisorFrom(n, 2)

(***************************************************************************)
(* ptCrypt.Util.keys                                                       *)
(***************************************************************************)
IFC_APPROVED_LENGTHS == {N1024, N2048, N3072}

(* 80 / 112 / 128 bits of security, scaled *)
getIFCSecurityLevel(N) ==
    IF N = N1024 THEN 1 ELSE IF N = N2048 THEN 2 ELSE 3

(* bit lengths of the two auxiliary primes *)
getIFCAuxiliaryPrimesLegths(N, probablePrimes) ==
    IF N = N1024 THEN <<2, 2>> ELSE <<2, 3>>

(***************************************************************************)
(* ptCrypt.Math.primality: the seeded prime constructions                  *)
(***************************************************************************)
(* odd primes of exactly the given bit length *)
PrimesOfLength(length) ==
    {c \in 2 ^ (length - 1) .. (2 ^ length - 1) : c % 2 = 1 /\ millerRabin(c)}

Failed == [status |-> FALSE, prime |-> None, primeSeed |-> None]

(* shaweTaylor(length, seed): {"status", "prime", "primeSeed"}; it may    *)
(* fail, and a prime it constructs comes with the successor seed           *)
shaweTaylor(length, seed) ==
    {Failed} \cup
    {[status |-> TRUE, prime |-> c, primeSeed |-> seed + 1] :
        c \in PrimesOfLength(length)}

(* ifcProvablePrime(length, e, seed, auxLen1, auxLen2): None (status      *)
(* FALSE here) or (prime, aux1, aux2, nextSeed) with prime - 1 coprime to *)
(* the exponent it was given; the callers never read aux1 and aux2         *)
ifcProvablePrime(length, e, seed, auxLen1, auxLen2) ==
    {Failed} \cup
    {[status |-> TRUE, prime |-> c, primeSeed |-> seed + 1] :
        c \in {d \in PrimesOfLength(length) : gcd(d - 1, e) = 1}}

(***************************************************************************)
(* Shared conditions of the generators                                     *)
(***************************************************************************)
(* fault: the distance compared with >= *)
FarApart_OrEqual(a, b, N) ==
    IF N \div 2 - DistanceBits >= 0
    THEN abs(a - b) >= 2 ^ (N \div 2 - DistanceBits)
    ELSE abs(a - b) >= 0

(* abs(p - q) > pow(2, N // 2 - 100); a negative exponent gives a float    *)
(* in (0, 1)                                                               *)
FarApart(a, b, N) ==
    IF N \div 2 - DistanceBits >= 0
    THEN abs(a - b) > 2 ^ (N \div 2 - DistanceBits)
    ELSE abs(a - b) > 0

(* coeff1 = 665857 * pow(2, N // 2 - 1) // 470832 *)
coeff1(N) == (Sqrt2Num * 2 ^ (N \div 2 - 1)) \div Sqrt2Den

(* fault: one more try than 5 * N // 2 *)
Exhausted_Late(i, N) == i > (RetryFactor * N) \div 2

(* i >= 5 * N // 2 *)
Exhausted(i, N) == i >= (RetryFactor * N) \div 2

(***************************************************************************)
(* State                                                                   *)
(***************************************************************************)
VARIABLES
    pc,      \* position of the running call
    call,    \* the call: function and arguments
    loc,     \* locals of the running generator
    cmb,     \* frame of generateProbablePrimeWithAuxiliaryPrimes
    ret,     \* value returned by the call
    rng,     \* use of secrets.randbits by the call
    oracle   \* use of ptCrypt.Math.primality by the call

vars == <<pc, call, loc, cmb, ret, rng, oracle>>

(* arguments of the generators (N, e, seed, probablePrimes), of the RSA    *)
(* primitives and the OAEP codec (e, d, n, x: the integer or byte string   *)
(* worked on, label) and of MGF (x: the seed, length); chained and of tell *)
(* that x is the value returned by the inverse operation applied to `of`   *)
NoCall ==
    [fn |-> "none", N |-> 0, e |-> 0, seed |-> None, probablePrimes |-> FALSE,
     d |-> 0, n |-> 0, x |-> None, label |-> <<>>, length |-> None,
     chained |-> FALSE, of |-> None]

NoLocals ==
    [workingSeed |-> None, firstSeed |-> None, pSeed |-> None, qSeed |-> None,
     primeSeed |-> None, p |-> None, q |-> None, i |-> None,
     p1 |-> None, p2 |-> None, q1 |-> None, q2 |-> None,
     Xp |-> None, Xq |-> None,
     Xp1 |-> None, Xp2 |-> None, Xq1 |-> None, Xq2 |-> None]

NoFrame ==
    [for |-> "none", p1 |-> None, p2 |-> None, N |-> None, e |-> None,
     R |-> None, X |-> None, Y |-> None, i |-> None]

Pending == [kind |-> "pending", a |-> None, b |-> None]
RetNone == [kind |-> "None", a |-> None, b |-> None]
RetInt(x) == [kind |-> "int", a |-> x, b |-> None]
RetPair(x, y) == [kind |-> "pair", a |-> x, b |-> y]
RetBytes(x) == [kind |-> "bytes", a |-> x, b |-> None]

NoRng == [drawn |-> FALSE, skipped |-> 0]
NoOracle == [called |-> FALSE, args |-> <<>>, trail |-> <<>>]

Drawn == [rng EXCEPT !.drawn = TRUE]
(* a redraw the source does not count: `continue` before i += 1 *)
Skipped == [rng EXCEPT !.drawn = TRUE,
                       !.skipped = IF @ < MaxSkipped THEN @ + 1 ELSE @]
Called == [oracle EXCEPT !.called = TRUE]
(* a seeded construction called with these positional arguments, of which *)
(* it takes `seed` as its seed, and answering res; the trail keeps, call   *)
(* after call, the seed taken and the successor seed returned              *)
CalledWith(args, seed, res) ==
    [called |-> TRUE, args |-> args,
     trail |-> Append(oracle.trail, [in |-> seed, out |-> res.primeSeed])]

Init ==
    /\ pc = "idle"
    /\ call = NoCall
    /\ loc = NoLocals
    /\ cmb = NoFrame
    /\ ret = Pending
    /\ rng = NoRng
    /\ oracle = NoOracle

(***************************************************************************)
(* Arguments the calls are made with                                       *)
(***************************************************************************)
(* approved lengths and one that is not (the scaled 512) *)
KeyLengths == {8, N1024, N2048, N3072}
(* 3, 4: not above 2^EMinBits; 6: even; 16, 17: not below 2^EMaxBits;  *)
(* 9 shares a factor with c - 1 for every candidate c = 1 (mod 3)        *)
Exponents == {3, 4, 5, 6, 9, 16, 17}
(* one seed of each approved length (2, 4 and 6 bits) and one longer *)
Seeds == {3, 9, 33, 65}

(***************************************************************************)
(* getSeed                                                                 *)
(***************************************************************************)
(* fault: the top bit is not forced *)
getSeedValue_Unforced(N, r) == r

(* randbits(2 * secLvl) | 2 ** (2 * secLvl- 1) *)
getSeedValue(N, r) == BitOr(r, 2 ^ (2 * getIFCSecurityLevel(N) - 1))

getSeed ==
    /\ pc = "idle"
    /\ \E N \in KeyLengths :
        /\ call' = [NoCall EXCEPT !.fn = "getSeed", !.N = N]
        /\ IF N \notin IFC_APPROVED_LENGTHS
           THEN /\ ret' = RetNone
                /\ rng' = rng
           ELSE \E r \in randbits(2 * getIFCSecurityLevel(N)) :
                /\ ret' = RetInt(getSeedValue(N, r))
                /\ rng' = Drawn
    /\ pc' = "done"
    /\ UNCHANGED <<loc, cmb, oracle>>

(***************************************************************************)
(* Parameter checks at entry (steps 1 and 2 of B.3.2 .. B.3.6)             *)
(***************************************************************************)
(* e <= 2**16 or e >= 2**256 or e % 2 == 0 *)
BadExponentOrEven(e) == e <= 2 ^ EMinBits \/ e >= 2 ^ EMaxBits \/ e % 2 = 0

(* e <= 2 ** 16 or e >= 2 ** 256 *)
BadExponent(e) == e <= 2 ^ EMinBits \/ e >= 2 ^ EMaxBits

(* N != 2048 and N != 3072 *)
BadLength2(N) == N # N2048 /\ N # N3072

(* N != 1024 and N != 2048 and N != 3072 *)
BadLength3(N) == N # N1024 /\ N # N2048 /\ N # N3072

(* fault: only a seed that is too short is refused *)
BadSeed_ShortOnly(seed, N) == bit_length(seed) < 2 * getIFCSecurityLevel(N)

(* seed.bit_length() != 2 * securityStrength *)
BadSeed(seed, N) == bit_length(seed) # 2 * getIFCSecurityLevel(N)

Return(v) ==
    /\ pc' = "done"
    /\ ret' = v

(***************************************************************************)
(* generateProbablePrimes (B.3.3)                                          *)
(***************************************************************************)
(* lengths the probable-prime search is run with *)
SearchLengths == KeyLengths \ {N3072}

(* Steps 4.4 and 4.5: the candidate reaches the counter only past coeff1 *)
TooSmall(c, N) == c < coeff1(N)

(* fault: the candidate accepted without the gcd test *)
Accepted_NoGcd(c, e) == millerRabin(c)

(* base.gcd(c - 1, e) == 1 and primality.millerRabin(c, testsCount) *)
Accepted(c, e) == gcd(c - 1, e) = 1 /\ millerRabin(c)

generateProbablePrimes ==
    /\ pc = "idle"
    /\ \E N \in SearchLengths, e \in Exponents :
        /\ call' = [NoCall EXCEPT !.fn = "generateProbablePrimes", !.N = N, !.e = e]
        /\ IF BadLength2(N) \/ BadExponentOrEven(e)
           THEN /\ Return(RetNone)
                /\ loc' = loc
           ELSE /\ pc' = "Step 4"
                /\ ret' = ret
                /\ loc' = [loc EXCEPT !.i = 0]
    /\ UNCHANGED <<cmb, rng, oracle>>

(* one pass of the loop of step 4; a rejected candidate is overwritten by *)
(* the next draw before it is read, so only the accepted p is kept        *)
generateProbablePrimes_Step4 ==
    /\ pc = "Step 4"
    /\ call.fn = "generateProbablePrimes"
    /\ \E r \in randbits(call.N \div 2) :
        LET p == BitOr(r, 1) IN
        IF TooSmall(p, call.N)
        THEN /\ rng' = Skipped
             /\ UNCHANGED <<pc, loc, ret, oracle>>
        ELSE IF Accepted(p, call.e)
        THEN /\ rng' = [rng EXCEPT !.drawn = TRUE, !.skipped = 0]
             /\ oracle' = Called
             /\ loc' = [loc EXCEPT !.p = p, !.i = 0]
             /\ pc' = "Step 5"
             /\ ret' = ret
        ELSE /\ rng' = Drawn
             /\ oracle' = IF gcd(p - 1, call.e) = 1 THEN Called ELSE oracle
             /\ loc' = [loc EXCEPT !.i = @ + 1]
             /\ IF Exhausted(loc.i + 1, call.N)
                THEN Return(RetNone)
                ELSE UNCHANGED <<pc, ret>>
    /\ UNCHANGED <<call, cmb>>

(* one pass of the loop of step 5 *)
generateProbablePrimes_Step5 ==
    /\ pc = "Step 5"
    /\ call.fn = "generateProbablePrimes"
    /\ \E r \in randbits(call.N \div 2) :
        LET q == BitOr(r, 1) IN
        IF ~FarApart(loc.p, q, call.N) \/ TooSmall(q, call.N)
        THEN /\ rng' = Skipped
             /\ UNCHANGED <<pc, loc, ret, oracle>>
        ELSE IF Accepted(q, call.e)
        THEN /\ rng' = Drawn
             /\ oracle' = Called
             /\ loc' = [loc EXCEPT !.q = q]
             /\ Return(RetPair(loc.p, q))
        ELSE /\ rng' = Drawn
             /\ oracle' = IF gcd(q - 1, call.e) = 1 THEN Called ELSE oracle
             /\ loc' = [loc EXCEPT !.i = @ + 1]
             /\ IF Exhausted(loc.i + 1, call.N)
                THEN Return(RetNone)
                ELSE UNCHANGED <<pc, ret>>
    /\ UNCHANGED <<call, cmb>>

(***************************************************************************)
(* generateProbablePrimeWithAuxiliaryPrimes (C.9)                          *)
(***************************************************************************)
(* fault: the two terms exchanged *)
CombinerR_Exchanged(p1, p2) ==
    (ModInverse(2 * p1, p2) * 2 * p1) - (ModInverse(p2, 2 * p1) * p2)

(* R = (pow(p2, -1, 2 * p1) * p2) - ((pow(2 * p1, -1, p2) * 2 * p1)) *)
CombinerR(p1, p2) ==
    (ModInverse(p2, 2 * p1) * p2) - (ModInverse(2 * p1, p2) * 2 * p1)

(* assert (R % (2*p1)) == 1 and (R % p2) == (-1 % p2) *)
AssertR(R, p1, p2) == (R % (2 * p1)) = 1 /\ (R % p2) = ((0 - 1) % p2)

(* xLowBorder = 665857 // 470832 * pow(2, N // 2 - 1) *)
xLowBorder(N) == (Sqrt2Num \div Sqrt2Den) * 2 ^ (N \div 2 - 1)

(* xHighBorder = pow(2, N // 2) - 1 *)
xHighBorder(N) == 2 ^ (N \div 2) - 1

(* X < xLowBorder or X > xHighBorder *)
OutOfBorders(X, N) == X < xLowBorder(N) \/ X > xHighBorder(N)

(* Y = X + ((R - X) % (2 * p1 * p2)) *)
FirstCandidate(X, R, p1, p2) == X + ((R - X) % (2 * p1 * p2))

(* fault: the candidate compared with pow(2, N) *)
TooLong_FullLength(Y, N) == Y >= 2 ^ N

(* Step 6: Y >= pow(2, N // 2) *)
TooLong(Y, N) == Y >= 2 ^ (N \div 2)

(* fault: one more try than 5 * (N // 2) *)
ExhaustedC_Late(i, N) == i > RetryFactor * (N \div 2)

(* Step 9: i >= 5 * (N // 2) *)
ExhaustedC(i, N) == i >= RetryFactor * (N \div 2)

Raise(what) ==
    /\ pc' = "raised"
    /\ ret' = [kind |-> what, a |-> None, b |-> None]

(* Step 8(7) of generateProbablePrimesWithConditions: the locals are set  *)
(* to zero before the pair is returned                                     *)
Zeroized(l) ==
    [l EXCEPT !.Xp = 0, !.Xq = 0, !.Xp1 = 0, !.Xp2 = 0, !.Xq1 = 0, !.Xq2 = 0,
              !.primeSeed = 0, !.p1 = 0, !.p2 = 0, !.q1 = 0, !.q2 = 0]

(* back at the head of the loop of step 6 (5): q1, q2, q and Xq are       *)
(* assigned again before they are read                                     *)
Retried(l) ==
    [l EXCEPT !.q = None, !.Xq = None, !.q1 = None, !.q2 = None,
              !.Xq1 = None, !.Xq2 = None]

(* fault: the witnesses are not compared *)
BothFarApart_PrimesOnly(p, q, Xp, Xq, N) == FarApart(p, q, N)

(* Step 7 (6): abs(p - q) > pow(2, N // 2 - 100) and                      *)
(*             abs(Xp - Xq) > pow(2, N // 2 - 100)                         *)
BothFarApart(p, q, Xp, Xq, N) == FarApart(p, q, N) /\ FarApart(Xp, Xq, N)

(* the combiner returns res (None: a record of kind "None") to the line   *)
(* that called it: steps 5.3 / (4.3) for p, 6.3 / (5.3) and 7 / (6) for q *)
CombinerReturns(res) ==
    CASE cmb.for = "top" ->
            /\ Return(res)
            /\ loc' = loc
      [] cmb.for = "p" ->
            IF res.kind = "None"
            THEN /\ Return(RetNone)
                 /\ loc' = loc
            ELSE /\ loc' = [loc EXCEPT !.p = res.a, !.Xp = res.b]
                 /\ pc' = IF call.probablePrimes THEN "Step (5.1)" ELSE "Step 6.1"
                 /\ ret' = ret
      [] cmb.for = "q" ->
            IF res.kind = "None"
            THEN /\ Return(RetNone)
                 /\ loc' = loc
            ELSE IF BothFarApart(loc.p, res.a, loc.Xp, res.b, call.N)
            THEN /\ loc' = Zeroized([loc EXCEPT !.q = res.a, !.Xq = res.b])
                 /\ Return(RetPair(loc.p, res.a))
            ELSE /\ loc' = Retried(loc)
                 /\ pc' = IF call.probablePrimes THEN "Step (5.1)" ELSE "Step 6.1"
                 /\ ret' = ret

(* the call itself with steps 1 and 2 *)
CombinerCalled(for, p1, p2, N, e) ==
    LET R == CombinerR(p1, p2) IN
    IF gcd(2 * p1, p2) # 1
    THEN /\ cmb' = [NoFrame EXCEPT !.for = for, !.p1 = p1, !.p2 = p2,
                                   !.N = N, !.e = e]
         /\ Return(RetNone)
    ELSE /\ cmb' = [NoFrame EXCEPT !.for = for, !.p1 = p1, !.p2 = p2,
                                   !.N = N, !.e = e, !.R = R]
         /\ IF AssertR(R, p1, p2)
            THEN /\ pc' = "C.9 Step 3"
                 /\ ret' = ret
            ELSE Raise("AssertionError")

(* direct calls <<p1, p2, N, e>>: coprime and equal auxiliary primes     *)
DirectCalls ==
    {<<a[1], a[2], N2048, e>> :
        a \in {<<3, 5>>, <<3, 7>>, <<5, 3>>, <<3, 3>>}, e \in {5, 9}}

(* the longest key, whose candidates outnumber the 5 * (N // 2) tries *)
LongCalls == {<<3, 5, N3072, e>> : e \in {5, 9}}

CombinerCalledDirectly(args) ==
    /\ pc = "idle"
    /\ \E a \in args :
        /\ call' = [NoCall EXCEPT !.fn = "generateProbablePrimeWithAuxiliaryPrimes",
                                  !.N = a[3], !.e = a[4]]
        /\ CombinerCalled("top", a[1], a[2], a[3], a[4])
    /\ UNCHANGED <<loc, rng, oracle>>

(* a short key with p1 and p2 of every kind: 1, even, composite, not      *)
(* coprime to each other, and with 2 * p1 * p2 above 2^(N // 2)            *)
ShortCalls ==
    {<<a[1], a[2], N1024, 5>> :
        a \in {<<1, 1>>, <<1, 3>>, <<2, 3>>, <<4, 5>>, <<5, 7>>, <<1, 9>>,
               <<7, 9>>, <<15, 7>>, <<3, 9>>}}

generateProbablePrimeWithAuxiliaryPrimes ==
    CombinerCalledDirectly(DirectCalls \cup ShortCalls)

generateProbablePrimeWithAuxiliaryPrimes_Long ==
    CombinerCalledDirectly(DirectCalls \cup LongCalls)

(* Step 3 with step 4 and 5: the witness X, the first candidate Y, i = 0 *)
generateProbablePrimeWithAuxiliaryPrimes_Step3 ==
    /\ pc = "C.9 Step 3"
    /\ \E r \in randbits(cmb.N \div 2) :
        LET X == BitOr(r, 2 ^ (cmb.N \div 2 - 1)) IN
        IF OutOfBorders(X, cmb.N)
        THEN /\ rng' = Skipped
             /\ UNCHANGED <<pc, cmb>>
        ELSE /\ rng' = Drawn
             /\ cmb' = [cmb EXCEPT !.X = X,
                                   !.Y = FirstCandidate(X, cmb.R, cmb.p1, cmb.p2),
                                   !.i = 0]
             /\ pc' = "C.9 Step 6"
    /\ UNCHANGED <<call, loc, ret, oracle>>

(* one pass of the loop of steps 6 to 11 *)
generateProbablePrimeWithAuxiliaryPrimes_Step6 ==
    /\ pc = "C.9 Step 6"
    /\ IF TooLong(cmb.Y, cmb.N)
       THEN /\ cmb' = [cmb EXCEPT !.X = None, !.Y = None, !.i = None]
            /\ pc' = "C.9 Step 3"
            /\ UNCHANGED <<loc, ret, oracle>>
       ELSE IF Accepted(cmb.Y, cmb.e)
       THEN /\ oracle' = Called
            /\ cmb' = IF cmb.for = "top" THEN cmb ELSE NoFrame
            /\ CombinerReturns(RetPair(cmb.Y, cmb.X))
       ELSE /\ oracle' = IF gcd(cmb.Y - 1, cmb.e) = 1 THEN Called ELSE oracle
            /\ IF ExhaustedC(cmb.i + 1, cmb.N)
               THEN /\ cmb' = IF cmb.for = "top"
                               THEN [cmb EXCEPT !.i = @ + 1] ELSE NoFrame
                    /\ CombinerReturns(RetNone)
               ELSE /\ cmb' = [cmb EXCEPT !.i = @ + 1,
                                          !.Y = @ + 2 * cmb.p1 * cmb.p2]
                    /\ UNCHANGED <<pc, loc, ret>>
    /\ UNCHANGED <<call, rng>>

(***************************************************************************)
(* generateProvablePrimes (B.3.2.2)                                        *)
(***************************************************************************)
(* lengths the seeded constructions are run with *)
ConditionedLengths == KeyLengths \ {N3072}

(* more seed-consuming sub-calls fit the bound of the model *)
SeedFits(s) ==
    /\ s < call.seed + MaxSeedSteps
    /\ Len(oracle.trail) < MaxSeedSteps

(* Steps 9, 10: pSeed = 0, qSeed = 0, workingSeed = 0 *)
SeedsZeroized(l) == [l EXCEPT !.pSeed = 0, !.qSeed = 0, !.workingSeed = 0]

(* primality.ifcProvablePrime(L, N1, N2, firstSeed, e) with N1 = N2 = 1:  *)
(* the arguments in the order the call passes them                         *)
ProvableArgs(N, e, seed) == <<N \div 2, 1, 1, seed, e>>

(* primality.ifcProvablePrime(N // 2, e, workingSeed, p1Len, p2Len) *)
ProvableArgsWithConditions(N, e, seed) ==
    <<N \div 2, e, seed, getIFCAuxiliaryPrimesLegths(N, FALSE)[1],
      getIFCAuxiliaryPrimesLegths(N, FALSE)[2]>>

ifcProvablePrimeCall(a) == ifcProvablePrime(a[1], a[2], a[3], a[4], a[5])

generateProvablePrimes ==
    /\ pc = "idle"
    /\ \E N \in ConditionedLengths, e \in Exponents, seed \in Seeds :
        /\ call' = [NoCall EXCEPT !.fn = "generateProvablePrimes", !.N = N,
                                  !.e = e, !.seed = seed]
        /\ IF BadLength2(N) \/ BadExponentOrEven(e) \/ BadSeed(seed, N)
           THEN /\ Return(RetNone)
                /\ loc' = loc
           ELSE /\ loc' = [loc EXCEPT !.workingSeed = seed, !.firstSeed = seed]
                /\ pc' = "Step 6"
                /\ ret' = ret
    /\ UNCHANGED <<cmb, rng, oracle>>

(* Step 6: p and its successor seed *)
generateProvablePrimes_Step6 ==
    /\ pc = "Step 6"
    /\ call.fn = "generateProvablePrimes"
    /\ LET args == ProvableArgs(call.N, call.e, loc.firstSeed) IN
       \E result \in ifcProvablePrimeCall(args) :
         /\ oracle' = CalledWith(args, args[3], result)
         /\ IF ~result.status
            THEN /\ Return(RetNone)
                 /\ loc' = loc
            ELSE /\ loc' = [loc EXCEPT !.p = result.prime,
                                       !.pSeed = result.primeSeed,
                                       !.workingSeed = result.primeSeed]
                 /\ pc' = "Step 7"
                 /\ ret' = ret
    /\ UNCHANGED <<call, cmb, rng>>

(* Steps 7 to 10: one pass of the loop for q *)
generateProvablePrimes_Step7 ==
    /\ pc = "Step 7"
    /\ call.fn = "generateProvablePrimes"
    /\ SeedFits(loc.workingSeed)
    /\ LET args == ProvableArgs(call.N, call.e, loc.workingSeed) IN
       \E result \in ifcProvablePrimeCall(args) :
         /\ oracle' = CalledWith(args, args[3], result)
         /\ IF ~result.status
            THEN /\ Return(RetNone)
                 /\ loc' = loc
            ELSE IF FarApart(loc.p, result.prime, call.N)
            THEN /\ loc' = SeedsZeroized([loc EXCEPT !.q = result.prime])
                 /\ Return(RetPair(loc.p, result.prime))
            ELSE /\ loc' = [loc EXCEPT !.q = result.prime,
                                       !.qSeed = result.primeSeed,
                                       !.workingSeed = result.primeSeed]
                 /\ UNCHANGED <<pc, ret>>
    /\ UNCHANGED <<call, cmb, rng>>

(***************************************************************************)
(* geneareteProvablePrimesWithConditions (B.3.4)                           *)
(***************************************************************************)
geneareteProvablePrimesWithConditions ==
    /\ pc = "idle"
    /\ \E N \in ConditionedLengths, e \in Exponents, seed \in Seeds :
        /\ call' = [NoCall EXCEPT !.fn = "geneareteProvablePrimesWithConditions",
                                  !.N = N, !.e = e, !.seed = seed]
        /\ IF BadLength3(N) \/ BadExponent(e) \/ BadSeed(seed, N)
           THEN /\ Return(RetNone)
                /\ loc' = loc
           ELSE /\ loc' = [loc EXCEPT !.workingSeed = seed]
                /\ pc' = "Step 6"
                /\ ret' = ret
    /\ UNCHANGED <<cmb, rng, oracle>>

(* Step 6 *)
geneareteProvablePrimesWithConditions_Step6 ==
    /\ pc = "Step 6"
    /\ call.fn = "geneareteProvablePrimesWithConditions"
    /\ LET args == ProvableArgsWithConditions(call.N, call.e, loc.workingSeed) IN
       \E res \in ifcProvablePrimeCall(args) :
         /\ oracle' = CalledWith(args, args[3], res)
         /\ IF ~res.status
            THEN /\ Return(RetNone)
                 /\ loc' = loc
            ELSE /\ loc' = [loc EXCEPT !.p = res.prime,
                                       !.pSeed = res.primeSeed,
                                       !.workingSeed = res.primeSeed]
                 /\ pc' = "Step 7"
                 /\ ret' = ret
    /\ UNCHANGED <<call, cmb, rng>>

(* Steps 7 to 10 *)
geneareteProvablePrimesWithConditions_Step7 ==
    /\ pc = "Step 7"
    /\ call.fn = "geneareteProvablePrimesWithConditions"
    /\ SeedFits(loc.workingSeed)
    /\ LET args == ProvableArgsWithConditions(call.N, call.e, loc.workingSeed) IN
       \E res \in ifcProvablePrimeCall(args) :
         /\ oracle' = CalledWith(args, args[3], res)
         /\ IF ~res.status
            THEN /\ Return(RetNone)
                 /\ loc' = loc
            ELSE IF FarApart(loc.p, res.prime, call.N)
            THEN /\ loc' = SeedsZeroized([loc EXCEPT !.q = res.prime])
                 /\ Return(RetPair(loc.p, res.prime))
            ELSE /\ loc' = [loc EXCEPT !.q = res.prime,
                                       !.qSeed = res.primeSeed,
                                       !.workingSeed = res.primeSeed]
                 /\ UNCHANGED <<pc, ret>>
    /\ UNCHANGED <<call, cmb, rng>>

(***************************************************************************)
(* generateProbablePrimesWithConditions (B.3.5, B.3.6)                     *)
(***************************************************************************)
(* while not primality.millerRabin(X, testsCount): X += 2 *)
RECURSIVE NextProbablePrime(_)
NextProbablePrime(X) == IF millerRabin(X) THEN X ELSE NextProbablePrime(X + 2)

(* secrets.randbits(len) | 2 ** (len - 1) | 1 *)
AuxCandidate(r, len) == BitOr(BitOr(r, 2 ^ (len - 1)), 1)

generateProbablePrimesWithConditions ==
    /\ pc = "idle"
    /\ \E N \in ConditionedLengths, e \in Exponents, probablePrimes \in BOOLEAN,
          seed \in Seeds \cup {None} :
        /\ probablePrimes \/ seed # None
        /\ call' = [NoCall EXCEPT !.fn = "generateProbablePrimesWithConditions",
                                  !.N = N, !.e = e, !.seed = seed,
                                  !.probablePrimes = probablePrimes]
        /\ IF BadLength3(N) \/ BadExponent(e)
              \/ (~probablePrimes /\ BadSeed(seed, N))
           THEN Return(RetNone)
           ELSE /\ pc' = IF probablePrimes THEN "Step (4.1)" ELSE "Step 5.1"
                /\ ret' = ret
    /\ UNCHANGED <<loc, cmb, rng, oracle>>

(* Step 5.1: p1 from the seed *)
generateProbablePrimesWithConditions_Step5_1 ==
    /\ pc = "Step 5.1"
    /\ LET args == <<getIFCAuxiliaryPrimesLegths(call.N, call.probablePrimes)[1],
                    call.seed>> IN
       \E res \in shaweTaylor(args[1], args[2]) :
        /\ oracle' = CalledWith(args, args[2], res)
        /\ IF ~res.status
           THEN /\ Return(RetNone)
                /\ loc' = loc
           ELSE /\ loc' = [loc EXCEPT !.p1 = res.prime, !.primeSeed = res.primeSeed]
                /\ pc' = "Step 5.2"
                /\ ret' = ret
    /\ UNCHANGED <<call, cmb, rng>>

(* Steps 5.2 and 5.3: p2 from the successor seed, then the combiner *)
generateProbablePrimesWithConditions_Step5_2 ==
    /\ pc = "Step 5.2"
    /\ LET args == <<getIFCAuxiliaryPrimesLegths(call.N, call.probablePrimes)[2],
                    loc.primeSeed>> IN
       \E res \in shaweTaylor(args[1], args[2]) :
        /\ oracle' = CalledWith(args, args[2], res)
        /\ IF ~res.status
           THEN /\ Return(RetNone)
                /\ UNCHANGED <<loc, cmb>>
           ELSE /\ loc' = [loc EXCEPT !.p2 = res.prime, !.primeSeed = res.primeSeed]
                /\ CombinerCalled("p", loc.p1, res.prime, call.N, call.e)
    /\ UNCHANGED <<call, rng>>

(* Step 6.1: q1 from the running seed *)
generateProbablePrimesWithConditions_Step6_1 ==
    /\ pc = "Step 6.1"
    /\ SeedFits(loc.primeSeed + 1)
    /\ LET args == <<getIFCAuxiliaryPrimesLegths(call.N, call.probablePrimes)[1],
                    loc.primeSeed>> IN
       \E res \in shaweTaylor(args[1], args[2]) :
        /\ oracle' = CalledWith(args, args[2], res)
        /\ IF ~res.status
           THEN /\ Return(RetNone)
                /\ loc' = loc
           ELSE /\ loc' = [loc EXCEPT !.q1 = res.prime, !.primeSeed = res.primeSeed]
                /\ pc' = "Step 6.2"
                /\ ret' = ret
    /\ UNCHANGED <<call, cmb, rng>>

(* Steps 6.2 and 6.3 *)
generateProbablePrimesWithConditions_Step6_2 ==
    /\ pc = "Step 6.2"
    /\ LET args == <<getIFCAuxiliaryPrimesLegths(call.N, call.probablePrimes)[2],
                    loc.primeSeed>> IN
       \E res \in shaweTaylor(args[1], args[2]) :
        /\ oracle' = CalledWith(args, args[2], res)
        /\ IF ~res.status
           THEN /\ Return(RetNone)
                /\ UNCHANGED <<loc, cmb>>
           ELSE /\ loc' = [loc EXCEPT !.q2 = res.prime, !.primeSeed = res.primeSeed]
                /\ CombinerCalled("q", loc.q1, res.prime, call.N, call.e)
    /\ UNCHANGED <<call, rng>>

(* Steps (4.1) to (4.3): Xp1 and Xp2 drawn and stepped to probable primes *)
generateProbablePrimesWithConditions_Step4_1 ==
    /\ pc = "Step (4.1)"
    /\ LET lens == getIFCAuxiliaryPrimesLegths(call.N, call.probablePrimes) IN
       \E r1 \in randbits(lens[1]), r2 \in randbits(lens[2]) :
        LET Xp1 == NextProbablePrime(AuxCandidate(r1, lens[1]))
            Xp2 == NextProbablePrime(AuxCandidate(r2, lens[2]))
        IN /\ loc' = [loc EXCEPT !.Xp1 = Xp1, !.Xp2 = Xp2]
           /\ CombinerCalled("p", Xp1, Xp2, call.N, call.e)
    /\ rng' = Drawn
    /\ oracle' = Called
    /\ UNCHANGED call

(* Steps (5.1) to (5.3) *)
generateProbablePrimesWithConditions_Step5_1d ==
    /\ pc = "Step (5.1)"
    /\ LET lens == getIFCAuxiliaryPrimesLegths(call.N, call.probablePrimes) IN
       \E r1 \in randbits(lens[1]), r2 \in randbits(lens[2]) :
        LET Xq1 == NextProbablePrime(AuxCandidate(r1, lens[1]))
            Xq2 == NextProbablePrime(AuxCandidate(r2, lens[2]))
        IN /\ loc' = [loc EXCEPT !.Xq1 = Xq1, !.Xq2 = Xq2]
           /\ CombinerCalled("q", Xq1, Xq2, call.N, call.e)
    /\ rng' = Drawn
    /\ oracle' = Called
    /\ UNCHANGED call

(***************************************************************************)
(* Byte strings: sequences of byte values.  A byte of the program has 8    *)
(* bits and a digest of hashlib.sha256 has 32 bytes; both are scaled, as   *)
(* are the counter of MGF (4 bytes) and its limit 2 ** 32:                 *)
(*     8 bits per byte           ->  BitsPerByte                           *)
(*     digest_size 32            ->  HashLength                            *)
(*     2 ** 32 * hashLength      ->  2 ^ MGFLimitBits * HashLength         *)
(*     base.intToBytes(c, 4)     ->  CounterLength                         *)
(***************************************************************************)
BitsPerByte == 2
HashLength == 2
MGFLimitBits == 2
CounterLength == 1

ByteValues == 2 ^ BitsPerByte

Min(a, b) == IF a < b THEN a ELSE b

(* a ^ b on two byte values *)
RECURSIVE BitXor(_, _)
BitXor(a, b) ==
    IF a = 0 THEN b
    ELSE IF b = 0 THEN a
    ELSE (((a % 2) + (b % 2)) % 2) + 2 * BitXor(a \div 2, b \div 2)

(* base.byteLength(n): bytes needed for n *)
RECURSIVE byteLength(_)
byteLength(x) == IF x = 0 THEN 0 ELSE 1 + byteLength(x \div ByteValues)

RECURSIVE BigEndian(_, _)
BigEndian(x, length) ==
    IF length = 0 THEN <<>>
    ELSE Append(BigEndian(x \div ByteValues, length - 1), x % ByteValues)

(* base.intToBytes(x, length = 0): big-endian, the shortest string when    *)
(* no length is given; the callers pass an x that fits the length          *)
intToBytes(x, length) ==
    BigEndian(x, IF length = 0 THEN byteLength(x) ELSE length)

(* base.bytesToInt(b): big-endian *)
RECURSIVE bytesToInt(_)
bytesToInt(b) ==
    IF b = <<>> THEN 0
    ELSE bytesToInt(SubSeq(b, 1, Len(b) - 1)) * ByteValues + b[Len(b)]

(* base.xor(a, b): byte-wise over the common length *)
xor(a, b) == [k \in 1 .. Min(Len(a), Len(b)) |-> BitXor(a[k], b[k])]

(* b[i:j] of Python, 0-based and end-exclusive *)
Slice(b, i, j) == SubSeq(b, i + 1, Min(j, Len(b)))

(* hashFunction(b).digest(): a fixed function from byte strings to         *)
(* HashLength bytes that depends on every byte and on the length           *)
RECURSIVE Absorb(_, _)
Absorb(s, b) ==
    IF b = <<>> THEN s
    ELSE Absorb((5 * s + Head(b) + 1) % (ByteValues ^ HashLength), Tail(b))

hashFunction(b) == intToBytes(Absorb(7, b), HashLength)

(* pow(x, k, n) for k >= 0 *)
RECURSIVE pow(_, _, _)
pow(x, k, n) ==
    IF k = 0 THEN 1 % n
    ELSE LET h == pow(x, k \div 2, n) IN
         IF k % 2 = 0 THEN (h * h) % n ELSE (((h * h) % n) * (x % n)) % n

(***************************************************************************)
(* RSA primitives (PKCS#1): encrypt, decrypt, sign, verify                 *)
(***************************************************************************)
(* fault: x = n passes the range check *)
OutOfRange_Inclusive(x, n) == x < 0 \/ x > n

(* m < 0 or m > n - 1 *)
OutOfRange(x, n) == x < 0 \/ x > n - 1

encrypt(e, n, m) == IF OutOfRange(m, n) THEN None ELSE pow(m, e, n)

(* fault: base and exponent exchanged *)
decrypt_Exchanged(d, n, c) == IF OutOfRange(c, n) THEN None ELSE pow(d, c, n)

decrypt(d, n, c) == IF OutOfRange(c, n) THEN None ELSE pow(c, d, n)

sign(d, n, m) == IF OutOfRange(m, n) THEN None ELSE pow(m, d, n)

verify(e, n, s) == IF OutOfRange(s, n) THEN None ELSE pow(s, e, n)

(* an integer result, or None *)
RetIntOrNone(v) == IF v = None THEN RetNone ELSE RetInt(v)

(* key pairs (e, d, n) with n = p * q and e * d = 1 (mod lcm(p-1, q-1)):   *)
(* 15 = 3 * 5 and 33 = 3 * 11                                              *)
PrimitiveKeys == {[e |-> 3, d |-> 3, n |-> 15], [e |-> 3, d |-> 7, n |-> 33]}

(* every x of the range 0 .. n - 1 and its neighbours outside *)
PrimitiveInputs(n) == (0 - 2) .. (n + 1)

(* a primitive called on its own *)
PrimitiveCalled(fn, k, x, v) ==
    /\ pc = "idle"
    /\ call' = [NoCall EXCEPT !.fn = fn, !.e = k.e, !.d = k.d, !.n = k.n, !.x = x]
    /\ Return(RetIntOrNone(v))

(* a primitive called on the integer the inverse primitive returned *)
PrimitiveChained(fn, inverse, v) ==
    /\ pc = "done"
    /\ call.fn = inverse
    /\ ret.kind = "int"
    /\ call' = [call EXCEPT !.fn = fn, !.x = ret.a, !.chained = TRUE, !.of = call.x]
    /\ Return(RetIntOrNone(v))

encryptCall ==
    /\ \E k \in PrimitiveKeys : \E m \in PrimitiveInputs(k.n) :
        PrimitiveCalled("encrypt", k, m, encrypt(k.e, k.n, m))
    /\ UNCHANGED <<loc, cmb, rng, oracle>>

decryptCall ==
    /\ \/ \E k \in PrimitiveKeys : \E c \in PrimitiveInputs(k.n) :
            PrimitiveCalled("decrypt", k, c, decrypt(k.d, k.n, c))
       \/ PrimitiveChained("decrypt", "encrypt", decrypt(call.d, call.n, ret.a))
    /\ UNCHANGED <<loc, cmb, rng, oracle>>

signCall ==
    /\ \E k \in PrimitiveKeys : \E m \in PrimitiveInputs(k.n) :
        PrimitiveCalled("sign", k, m, sign(k.d, k.n, m))
    /\ UNCHANGED <<loc, cmb, rng, oracle>>

verifyCall ==
    /\ \/ \E k \in PrimitiveKeys : \E s \in PrimitiveInputs(k.n) :
            PrimitiveCalled("verify", k, s, verify(k.e, k.n, s))
       \/ PrimitiveChained("verify", "sign", verify(call.e, call.n, ret.a))
    /\ UNCHANGED <<loc, cmb, rng, oracle>>

(***************************************************************************)
(* MGF (MGF1 of PKCS#1)                                                    *)
(***************************************************************************)
(* fault: the last, partial block is not produced *)
MGFBlocks_Floor(length) == length \div HashLength

(* top = length // hashLength; if length % hashLength: top += 1 *)
MGFBlocks(length) ==
    length \div HashLength + (IF length % HashLength # 0 THEN 1 ELSE 0)

(* t after the passes for counter = 0 .. top - 1 *)
RECURSIVE MGFStream(_, _)
MGFStream(seed, top) ==
    IF top = 0 THEN <<>>
    ELSE MGFStream(seed, top - 1)
            \o hashFunction(seed \o intToBytes(top - 1, CounterLength))

MGF(seed, length) ==
    IF length > 2 ^ MGFLimitBits * HashLength THEN RetNone
    ELSE RetBytes(Slice(MGFStream(seed, MGFBlocks(length)), 0, length))

(* seeds of MGF and the lengths up to two past its limit *)
MGFSeeds == {<<>>, <<1>>, <<2, 3>>}
MGFLengths == 0 .. (2 ^ MGFLimitBits * HashLength + 2)

MGFCall ==
    /\ pc = "idle"
    /\ \E seed \in MGFSeeds, length \in MGFLengths :
        /\ call' = [NoCall EXCEPT !.fn = "MGF", !.x = seed, !.length = length]
        /\ Return(MGF(seed, length))
    /\ UNCHANGED <<loc, cmb, rng, oracle>>

(***************************************************************************)
(* OAEP codec: oaepEncrypt, oaepDecrypt                                    *)
(***************************************************************************)
(* b"\x00" * k *)
Zeros(k) == [j \in 1 .. k |-> 0]

(* Steps 2.e to 3 of oaepEncrypt for a data block db and a seed; every     *)
(* length passed to MGF here is below its limit                            *)
Masked(e, n, nLength, db, seed) ==
    LET dbMask == MGF(seed, nLength - HashLength - 1).a
        maskedDb == xor(db, dbMask)
        seedMask == MGF(maskedDb, HashLength).a
        maskedSeed == xor(seed, seedMask)
        em == <<0>> \o maskedSeed \o maskedDb
        m == bytesToInt(em)
        c == encrypt(e, n, m)
    IN intToBytes(c, nLength)

(* r: the outcome of secrets.randbits(hLength * 8) *)
oaepEncrypt(e, n, message, label, r) ==
    LET nLength == Len(intToBytes(n, 0))
        mLength == Len(message)
        hLength == HashLength
    IN IF mLength > nLength - 2 * hLength - 2 THEN RetNone
       ELSE LET lHash == hashFunction(label)
                ps == Zeros(nLength - mLength - 2 * hLength - 2)
                db == lHash \o ps \o <<1>> \o message
                seed == intToBytes(r, 0)
            IN RetBytes(Masked(e, n, nLength, db, seed))

(* db[index] == b"\x01": db[index] is an int and b"\x01" a bytes object,   *)
(* which Python never finds equal                                          *)
EqualsBytes(v, b) == FALSE

(* fault: only a ciphertext that is too short is refused *)
WrongLength_ShortOnly(ciphertext, nLength) == Len(ciphertext) < nLength

(* len(ciphertext) != nLength *)
WrongLength(ciphertext, nLength) == Len(ciphertext) # nLength

(* Step 3 up to db, for em of nLength bytes *)
Unmasked(em, nLength) ==
    LET maskedSeed == Slice(em, 1, 1 + HashLength)
        maskedDb == Slice(em, 1 + HashLength, nLength)
        seedMask == MGF(maskedDb, HashLength).a
        seed == xor(maskedSeed, seedMask)
        dbMask == MGF(seed, nLength - HashLength - 1).a
    IN xor(maskedDb, dbMask)

(* base.intToBytes(None, nLength) raises *)
Error == [kind |-> "Error", a |-> None, b |-> None]
(* the loop at line 554 starts its next pass with the same index *)
Loops == [kind |-> "loops", a |-> None, b |-> None]

oaepDecrypt(d, n, ciphertext, label) ==
    LET nLength == byteLength(n)
        hLength == HashLength
    IN IF WrongLength(ciphertext, nLength) THEN RetNone
       ELSE IF nLength < 2 * hLength + 2 THEN RetNone
       ELSE LET c == bytesToInt(ciphertext)
                m == decrypt(d, n, c)
            IN IF m = None THEN Error
               ELSE LET em == intToBytes(m, nLength)
                        lHash == hashFunction(label)
                        db == Unmasked(em, nLength)
                        lHash_ == Slice(db, 0, hLength)
                        index == hLength
                    IN IF lHash # lHash_ THEN RetNone
                       ELSE IF ~(index < Len(db))
                       THEN RetBytes(Slice(db, index + 1, Len(db)))
                       ELSE IF EqualsBytes(db[index + 1], <<1>>)
                       THEN RetBytes(Slice(db, index + 1, Len(db)))
                       ELSE IF ~EqualsBytes(db[index + 1], <<0>>)
                       THEN RetNone
                       ELSE Loops

(* key pairs (e, d, n): 11663 = 107 * 109 has 7 bytes, 16637 = 127 * 131   *)
(* has 8                                                                   *)
CodecKeys ==
    {[e |-> 5, d |-> 1145, n |-> 11663], [e |-> 11, d |-> 6701, n |-> 16637]}

(* messages of 0 to 3 bytes: the longest is refused by both keys *)
Messages == {<<>>, <<1>>, <<2, 3>>, <<1, 0, 3>>}
Labels == {<<>>, <<1>>}

(* data blocks an encoder never builds: no separator, a byte that is       *)
(* neither 0 nor 1 before the separator, the hash of another label         *)
ForgedBlocks(nLength, label) ==
    LET free == nLength - 2 * HashLength - 1 IN
    {hashFunction(label) \o Zeros(free),
     hashFunction(label) \o <<2>> \o Zeros(free - 1),
     hashFunction(label \o <<3>>) \o Zeros(free - 1) \o <<1>>,
     hashFunction(label) \o Zeros(free - 1) \o <<1>>}

(* ciphertexts handed to oaepDecrypt: of a wrong length, of value n and    *)
(* above, and the encryptions of the forged data blocks                    *)
Ciphertexts(k, label) ==
    LET nLength == byteLength(k.n) IN
    {<<>>, Zeros(nLength - 1), Zeros(nLength + 1),
     [j \in 1 .. (nLength + 1) |-> ByteValues - 1],
     intToBytes(k.n, nLength), [j \in 1 .. nLength |-> ByteValues - 1]}
    \cup {Masked(k.e, k.n, nLength, db, <<1, 2>>) :
            db \in ForgedBlocks(nLength, label)}

(* the result reaches the caller, or the call raises or never returns *)
CodecReturns(res) ==
    CASE res.kind = "Error" -> Raise("Error")
      [] res.kind = "loops" -> /\ pc' = "padding scan"
                               /\ ret' = ret
      [] OTHER -> Return(res)

oaepEncryptCall ==
    /\ pc = "idle"
    /\ \E k \in CodecKeys, message \in Messages, label \in Labels,
          r \in randbits(HashLength * BitsPerByte) :
        LET res == oaepEncrypt(k.e, k.n, message, label, r) IN
        /\ call' = [NoCall EXCEPT !.fn = "oaepEncrypt", !.e = k.e, !.d = k.d,
                                  !.n = k.n, !.x = message, !.label = label]
        /\ rng' = IF res.kind = "None" THEN rng ELSE Drawn
        /\ CodecReturns(res)
    /\ UNCHANGED <<loc, cmb, oracle>>

(* oaepDecrypt called on its own, or on the ciphertext oaepEncrypt         *)
(* returned, with the private exponent of the key and the same label       *)
oaepDecryptCall ==
    /\ \/ /\ pc = "idle"
          /\ \E k \in CodecKeys, label \in Labels :
              \E ciphertext \in Ciphertexts(k, label) :
                /\ call' = [NoCall EXCEPT !.fn = "oaepDecrypt", !.e = k.e,
                                          !.d = k.d, !.n = k.n,
                                          !.x = ciphertext, !.label = label]
                /\ CodecReturns(oaepDecrypt(k.d, k.n, ciphertext, label))
       \/ /\ pc = "done"
          /\ call.fn = "oaepEncrypt"
          /\ ret.kind = "bytes"
          /\ call' = [call EXCEPT !.fn = "oaepDecrypt", !.x = ret.a,
                                  !.chained = TRUE, !.of = call.x]
          /\ CodecReturns(oaepDecrypt(call.d, call.n, ret.a, call.label))
    /\ UNCHANGED <<loc, cmb, rng, oracle>>

Next ==
    \/ getSeed
    \/ generateProvablePrimes
    \/ generateProvablePrimes_Step6
    \/ generateProvablePrimes_Step7
    \/ geneareteProvablePrimesWithConditions
    \/ geneareteProvablePrimesWithConditions_Step6
    \/ geneareteProvablePrimesWithConditions_Step7
    \/ generateProbablePrimesWithConditions
    \/ generateProbablePrimesWithConditions_Step5_1
    \/ generateProbablePrimesWithConditions_Step5_2
    \/ generateProbablePrimesWithConditions_Step6_1
    \/ generateProbablePrimesWithConditions_Step6_2
    \/ generateProbablePrimesWithConditions_Step4_1
    \/ generateProbablePrimesWithConditions_Step5_1d
    \/ generateProbablePrimeWithAuxiliaryPrimes
    \/ generateProbablePrimeWithAuxiliaryPrimes_Step3
    \/ generateProbablePrimeWithAuxiliaryPrimes_Step6
    \/ generateProbablePrimes
    \/ generateProbablePrimes_Step4
    \/ generateProbablePrimes_Step5
    \/ encryptCall
    \/ decryptCall
    \/ signCall
    \/ verifyCall
    \/ MGFCall
    \/ oaepEncryptCall
    \/ oaepDecryptCall

Spec == Init /\ [][Next]_vars

(* the combiner alone, called directly; a running call keeps taking steps *)
NextCombiner ==
    \/ generateProbablePrimeWithAuxiliaryPrimes_Long
    \/ generateProbablePrimeWithAuxiliaryPrimes_Step3
    \/ generateProbablePrimeWithAuxiliaryPrimes_Step6

SpecCombiner == Init /\ [][NextCombiner]_vars /\ WF_vars(NextCombiner)


(***************************************************************************)
(* Properties                                                              *)
(***************************************************************************)
Generators ==
    {"generateProvablePrimes", "generateProbablePrimes",
     "geneareteProvablePrimesWithConditions",
     "generateProbablePrimesWithConditions"}

ProbableGenerators ==
    {"generateProbablePrimes", "generateProbablePrimesWithConditions"}

SeedConsumers == Generators \ {"generateProbablePrimes"}

Returned == pc = "done"
ReturnedPair == pc = "done" /\ ret.kind = "pair"
ReturnedNone == pc = "done" /\ ret.kind = "None"

(* C1: a pair (p, q) returned by any of the four generators satisfies      *)
(* |p - q| > 2^(N/2 - 100).                                                *)
C1_PairFarApart ==
    (ReturnedPair /\ call.fn \in Generators) =>
        abs(ret.a - ret.b) > 2 ^ (call.N \div 2 - DistanceBits)

(* a pair of the conditioned probable generator, drawn directly *)
C1_Witness ==
    /\ ReturnedPair
    /\ call.fn = "generateProbablePrimesWithConditions"
    /\ call.probablePrimes

(* C2: the modulus n = p * q of a pair returned by generateProbablePrimes  *)
(* or generateProbablePrimesWithConditions has bit length exactly N.       *)
C2_ModulusLength ==
    (ReturnedPair /\ call.fn \in ProbableGenerators) =>
        bit_length(ret.a * ret.b) = call.N

(* C3: with e even, e <= 2^16 or e >= 2^256 every generator returns None   *)
(* having drawn no random bits and called no primality routine.            *)
C3_BadExponentRefused ==
    (call.fn \in Generators
        /\ (call.e % 2 = 0 \/ call.e <= 2 ^ EMinBits \/ call.e >= 2 ^ EMaxBits)) =>
        (~rng.drawn /\ ~oracle.called /\ (Returned => ret.kind = "None"))

(* C4: when a seed-consuming generator returns, on success or failure, its *)
(* working seed and the seeds derived from it hold zero.                   *)
C4_SeedsZeroOnReturn ==
    (Returned /\ call.fn \in SeedConsumers) =>
        \A f \in {"workingSeed", "pSeed", "qSeed", "primeSeed"} :
            loc[f] \in {None, 0}

(* C5 as stated: neither search of generateProbablePrimes draws more than  *)
(* 5 * L candidates (counted tries plus uncounted redraws).                *)
C5_DrawsBounded ==
    (call.fn = "generateProbablePrimes" /\ loc.i # None) =>
        loc.i + rng.skipped <= RetryFactor * (call.N \div 2)

(* C5 amended: each search of generateProbablePrimes counts at most 5 * L  *)
(* candidates that passed the size and distance screens and failed the gcd *)
(* or primality test, and the call returns None when the count reaches     *)
(* 5 * L; a screened-out draw is redrawn without being counted.            *)
C5_CountedTriesBounded ==
    (call.fn = "generateProbablePrimes" /\ loc.i # None) =>
        /\ pc \in {"Step 4", "Step 5"} => loc.i < RetryFactor * (call.N \div 2)
        /\ ReturnedPair => loc.i < RetryFactor * (call.N \div 2)
        /\ ReturnedNone => loc.i = RetryFactor * (call.N \div 2)

(* the search for q gave up after 5 * L counted tries *)
C5_Witness ==
    /\ ReturnedNone
    /\ call.fn = "generateProbablePrimes"
    /\ loc.p # None
    /\ loc.i = RetryFactor * (call.N \div 2)

(* C6 as stated: every call of the combiner returns, whatever is drawn.    *)
C6_CombinerReturns == <>(pc \in {"done", "raised"})

(* C6 amended: after each witness X the combiner checks at most 5 * L      *)
(* candidates Y and returns None at the 5 * L-th rejection; the number of  *)
(* witnesses drawn is not bounded, since X is drawn again, with the count  *)
(* back at zero, whenever the candidates reach 2^L first.                  *)
C6_ChecksPerWitnessBounded ==
    /\ pc = "C.9 Step 6" => cmb.i < RetryFactor * (cmb.N \div 2)
    /\ (ReturnedNone /\ cmb.R # None) => cmb.i = RetryFactor * (cmb.N \div 2)
    /\ (ReturnedPair /\ cmb.R # None) => cmb.i < RetryFactor * (cmb.N \div 2)

(* the combiner gave up on a witness after 5 * L rejected candidates *)
C6_Witness ==
    /\ ReturnedNone
    /\ cmb.X # None
    /\ cmb.i = RetryFactor * (cmb.N \div 2)

(* C7: both primes of a pair returned by generateProbablePrimes or         *)
(* generateProbablePrimesWithConditions have gcd(prime - 1, e) = 1 and     *)
(* pass the probabilistic primality test.                                  *)
C7_PairCoprimeAndTested ==
    (ReturnedPair /\ call.fn \in ProbableGenerators) =>
        /\ gcd(ret.a - 1, call.e) = 1 /\ millerRabin(ret.a)
        /\ gcd(ret.b - 1, call.e) = 1 /\ millerRabin(ret.b)

(* a pair of generateProbablePrimes *)
C7_Witness == ReturnedPair /\ call.fn = "generateProbablePrimes"

(* C8: a prime returned by the combiner, and each prime returned by        *)
(* generateProbablePrimes, has bit length exactly N/2.                     *)
C8_ExactLength ==
    /\ (ReturnedPair /\ call.fn = "generateProbablePrimeWithAuxiliaryPrimes") =>
            (2 ^ (call.N \div 2 - 1) <= ret.a /\ ret.a < 2 ^ (call.N \div 2))
    /\ (ReturnedPair /\ call.fn \in ProbableGenerators) =>
            /\ bit_length(ret.a) = call.N \div 2
            /\ bit_length(ret.b) = call.N \div 2

(* the combiner, called directly, returned a prime with its witness *)
C8_Witness ==
    /\ ReturnedPair
    /\ call.fn = "generateProbablePrimeWithAuxiliaryPrimes"
    /\ ret.a > ret.b

(* C9: a generator given an unsupported key length, or a seed-consuming    *)
(* one given a seed whose bit length is not 2 * securityLevel(N), returns  *)
(* None at entry, before any random draw or primality call; with           *)
(* probablePrimes set the seed is not read, so no call fails at entry on   *)
(* account of it.                                                          *)
SupportedLengths(fn) ==
    IF fn \in {"generateProvablePrimes", "generateProbablePrimes"}
    THEN {N2048, N3072} ELSE {N1024, N2048, N3072}

ReadsSeed ==
    /\ call.fn \in SeedConsumers
    /\ ~call.probablePrimes

C9_RefusedAtEntry ==
    /\ (call.fn \in Generators
            /\ (call.N \notin SupportedLengths(call.fn)
                   \/ (ReadsSeed /\ bit_length(call.seed)
                                      # 2 * getIFCSecurityLevel(call.N)))) =>
            (ReturnedNone /\ ~rng.drawn /\ ~oracle.called)
    /\ (call.fn = "generateProbablePrimesWithConditions" /\ call.probablePrimes
            /\ call.N \in SupportedLengths(call.fn)
            /\ call.e > 2 ^ EMinBits /\ call.e < 2 ^ EMaxBits) =>
            (rng.drawn \/ pc = "Step (4.1)")

(* a seed of the wrong length refused although length and exponent are fine *)
C9_Witness ==
    /\ ReturnedNone
    /\ call.fn = "generateProvablePrimes"
    /\ call.N = N2048
    /\ call.e = 5
    /\ bit_length(call.seed) > 2 * getIFCSecurityLevel(call.N)

(* C10: getSeed(N) returns an integer of bit length exactly                *)
(* 2 * securityLevel(N) for an approved N, whatever is drawn, and None for *)
(* any other N.                                                            *)
C10_SeedLength ==
    (Returned /\ call.fn = "getSeed") =>
        IF call.N \in {N1024, N2048, N3072}
        THEN /\ ret.kind = "int"
             /\ bit_length(ret.a) = 2 * getIFCSecurityLevel(call.N)
        ELSE ret.kind = "None"

(* the draw was all zeros and the seed still has its full length *)
C10_Witness ==
    /\ Returned
    /\ call.fn = "getSeed"
    /\ call.N = N3072
    /\ ret.kind = "int"
    /\ ret.a = 2 ^ (2 * getIFCSecurityLevel(N3072) - 1)

(* C13: for n = p * q, matching exponents e and d and every m of           *)
(* 0 .. n - 1, decrypt(d, n, encrypt(e, n, m)) = m and                     *)
(* verify(e, n, sign(d, n, m)) = m.                                        *)
C13_PrimitiveRoundTrip ==
    (Returned /\ call.fn \in {"decrypt", "verify"} /\ call.chained) =>
        ret = RetInt(call.of)

(* a message that shares the factor 11 with n = 33 came back *)
C13_Witness ==
    /\ Returned
    /\ call.fn = "decrypt"
    /\ call.chained
    /\ call.n = 33
    /\ call.of = 11
    /\ ret.kind = "int"

(* x^k mod n by k multiplications *)
RECURSIVE PowerMod(_, _, _)
PowerMod(x, k, n) == IF k = 0 THEN 1 % n ELSE (x * PowerMod(x, k - 1, n)) % n

Primitives == {"encrypt", "decrypt", "sign", "verify"}

(* C14: encrypt, decrypt, sign and verify return None exactly when x is    *)
(* outside 0 .. n - 1, and x to their exponent modulo n, a value of        *)
(* 0 .. n - 1, otherwise; they change nothing else.                        *)
C14_RangeChecked ==
    (Returned /\ call.fn \in Primitives) =>
        /\ IF call.x < 0 \/ call.x > call.n - 1
           THEN ret = RetNone
           ELSE /\ ret.kind = "int"
                /\ ret.a \in 0 .. (call.n - 1)
                /\ ret.a = PowerMod(call.x,
                                    IF call.fn \in {"encrypt", "verify"}
                                    THEN call.e ELSE call.d,
                                    call.n)
        /\ loc = NoLocals /\ cmb = NoFrame /\ rng = NoRng /\ oracle = NoOracle

(* verify refused s = n, the first value past the range *)
C14_Witness ==
    /\ ReturnedNone
    /\ call.fn = "verify"
    /\ call.x = call.n

(* the data block oaepDecrypt recovers from the call's ciphertext *)
RecoveredBlock ==
    Unmasked(intToBytes(decrypt(call.d, call.n, bytesToInt(call.x)),
                        byteLength(call.n)),
             byteLength(call.n))

(* the ciphertext has the length of n and a value below n *)
Recoverable ==
    /\ Len(call.x) = byteLength(call.n)
    /\ byteLength(call.n) >= 2 * HashLength + 2
    /\ bytesToInt(call.x) < call.n

(* C11: oaepDecrypt(d, n, oaepEncrypt(e, n, message, label), label)        *)
(* returns message, for every key, label, seed drawn by the encoder and    *)
(* message shorter than nLen - 2 * hLen - 2 bytes.                         *)
C11_OaepRoundTrip ==
    (call.fn = "oaepDecrypt" /\ call.chained
        /\ Len(call.of) < byteLength(call.n) - 2 * HashLength - 2) =>
        (Returned /\ ret.kind = "bytes" /\ ret.a = call.of)

NoSeparator(db) == \A j \in (HashLength + 1) .. Len(db) : db[j] # 1

(* C12: oaepDecrypt returns None, and neither raises nor returns bytes,    *)
(* when the ciphertext has not the length of n, when the recovered data    *)
(* block does not start with hash(label), and when the data block holds    *)
(* no 0x01 after the label hash.                                           *)
C12_DecodeFails ==
    (call.fn = "oaepDecrypt"
        /\ \/ Len(call.x) # byteLength(call.n)
           \/ /\ Recoverable
              /\ \/ Slice(RecoveredBlock, 0, HashLength) # hashFunction(call.label)
                 \/ NoSeparator(RecoveredBlock)) =>
        ReturnedNone

(* a data block with the right label hash and no separator was refused *)
C12_Witness ==
    /\ ReturnedNone
    /\ call.fn = "oaepDecrypt"
    /\ Recoverable
    /\ Slice(RecoveredBlock, 0, HashLength) = hashFunction(call.label)
    /\ NoSeparator(RecoveredBlock)

(* hash(seed || BE32(counter)) for the block that holds byte j of the mask *)
MaskByte(seed, j) ==
    hashFunction(seed \o intToBytes((j - 1) \div HashLength, CounterLength))
        [((j - 1) % HashLength) + 1]

(* C19: MGF(seed, length) returns the first `length` bytes of              *)
(* hash(seed || BE32(0)) || hash(seed || BE32(1)) || ... for every length  *)
(* up to 2^32 * hLen, so that a shorter mask is a prefix of a longer one,  *)
(* and None for a length above 2^32 * hLen.                                *)
C19_MaskIsPrefixOfStream ==
    (Returned /\ call.fn = "MGF") =>
        IF call.length > 2 ^ MGFLimitBits * HashLength
        THEN ret.kind = "None"
        ELSE /\ ret.kind = "bytes"
             /\ Len(ret.a) = call.length
             /\ \A j \in 1 .. call.length : ret.a[j] = MaskByte(call.x, j)
             /\ \A a \in 0 .. call.length :
                    MGF(call.x, a).a = SubSeq(ret.a, 1, a)

(* a mask that ends in the middle of its third block *)
C19_Witness ==
    /\ Returned
    /\ call.fn = "MGF"
    /\ call.x = <<2, 3>>
    /\ call.length = 2 * HashLength + 1
    /\ ret.kind = "bytes"

(* C15: every witness X the combiner uses lies between                     *)
(* (665857 / 470832) * 2^(L - 1) and 2^L - 1, L = N / 2.                   *)
C15_WitnessAboveSqrt2 ==
    (cmb.X # None) =>
        /\ Sqrt2Den * cmb.X >= Sqrt2Num * 2 ^ (cmb.N \div 2 - 1)
        /\ cmb.X <= 2 ^ (cmb.N \div 2) - 1

ProvableGenerators ==
    {"generateProvablePrimes", "geneareteProvablePrimesWithConditions"}

(* the seed the next sub-call is due: the caller's, then the successor     *)
(* the sub-call before returned                                            *)
SeedDue(k) == IF k = 1 THEN call.seed ELSE oracle.trail[k - 1].out

(* C16: every call of ifcProvablePrime by generateProvablePrimes and       *)
(* geneareteProvablePrimesWithConditions passes (length, e, seed, auxLen1, *)
(* auxLen2) in this order: e second, the working seed third, then the      *)
(* auxiliary lengths, which are 1 and 1 for generateProvablePrimes.        *)
C16_OracleArguments ==
    (call.fn \in ProvableGenerators /\ oracle.called) =>
        /\ oracle.args[1] = call.N \div 2
        /\ oracle.args[2] = call.e
        /\ oracle.args[3] = SeedDue(Len(oracle.trail))
        /\ <<oracle.args[4], oracle.args[5]>> =
                IF call.fn = "generateProvablePrimes"
                THEN <<1, 1>>
                ELSE getIFCAuxiliaryPrimesLegths(call.N, FALSE)

(* C17: in a run of a seed-consuming generator the first primality         *)
(* sub-call takes the caller's seed and every later one the successor seed *)
(* returned by the sub-call before it; no seed is taken twice.             *)
C17_SeedThreaded ==
    (call.fn \in SeedConsumers) =>
        \A k \in 1 .. Len(oracle.trail) :
            /\ oracle.trail[k].in = SeedDue(k)
            /\ \A j \in 1 .. (k - 1) : oracle.trail[j].in # oracle.trail[k].in

(* C18: generateProbablePrimesWithConditions returns a pair only when      *)
(* |p - q| > 2^(L - 100) and |X_p - X_q| > 2^(L - 100); while one of them  *)
(* fails q is made again from fresh q1, q2 and X_q, and p and X_p stay.    *)
C18_DualDistance ==
    [][(call.fn = "generateProbablePrimesWithConditions" /\ loc.p # None) =>
        /\ (pc' = "done" /\ ret'.kind = "pair") =>
                /\ ret'.a = loc.p
                /\ ret'.b = cmb.Y
                /\ FarApart(loc.p, cmb.Y, call.N)
                /\ FarApart(loc.Xp, cmb.X, call.N)
        /\ (pc = "C.9 Step 6" /\ pc' \in {"Step 6.1", "Step (5.1)"}) =>
                /\ ~FarApart(loc.p, cmb.Y, call.N)
                      \/ ~FarApart(loc.Xp, cmb.X, call.N)
                /\ loc'.q = None /\ loc'.Xq = None
                /\ loc'.q1 = None /\ loc'.q2 = None
                /\ loc'.Xq1 = None /\ loc'.Xq2 = None
        /\ (pc' # "done") => (loc'.p = loc.p /\ loc'.Xp = loc.Xp)
      ]_vars

(* a pair returned at the second q, from the seeds *)
C18_Witness ==
    /\ ReturnedPair
    /\ call.fn = "generateProbablePrimesWithConditions"
    /\ ~call.probablePrimes
    /\ Len(oracle.trail) = 6

(* c = 1 (mod 2 * p1) and c = -1 (mod p2) *)
Congruent(c, p1, p2) == c % (2 * p1) = 1 % (2 * p1) /\ (c + 1) % p2 = 0

(* C20: with gcd(2 * p1, p2) = 1 the combiner's R is 1 (mod 2 * p1) and    *)
(* -1 (mod p2), so its assertion holds; every candidate Y it examines or   *)
(* returns is congruent to R modulo 2 * p1 * p2, hence 1 (mod 2 * p1) and  *)
(* -1 (mod p2), and is not below X.                                        *)
C20_Congruences ==
    /\ ret.kind # "AssertionError"
    /\ (cmb.p1 # None /\ gcd(2 * cmb.p1, cmb.p2) = 1) =>
            Congruent(cmb.R, cmb.p1, cmb.p2)
    /\ (cmb.Y # None) =>
            /\ (cmb.Y - cmb.R) % (2 * cmb.p1 * cmb.p2) = 0
            /\ Congruent(cmb.Y, cmb.p1, cmb.p2)
            /\ cmb.X <= cmb.Y
    /\ (ReturnedPair /\ call.fn = "generateProbablePrimeWithAuxiliaryPrimes") =>
            /\ Congruent(ret.a, cmb.p1, cmb.p2)
            /\ ret.b <= ret.a

(* a candidate reached by a step of 2 * p1 * p2, for a negative R *)
C20_Witness ==
    /\ pc = "C.9 Step 6"
    /\ cmb.R < 0 - 1
    /\ cmb.Y # None
    /\ cmb.i >= 1

(* the ciphertext has the length of n and a value of n or above, so that   *)
(* decrypt (line 450) returns None                                         *)
ValueOutOfRange ==
    /\ Len(call.x) = byteLength(call.n)
    /\ byteLength(call.n) >= 2 * HashLength + 2
    /\ OutOfRange(bytesToInt(call.x), call.n)

(* C21: oaepDecrypt, given a ciphertext of exactly nLen bytes whose value  *)
(* is n or above, returns None: it neither goes on decoding with the None  *)
(* that decrypt returned nor raises.                                       *)
C21_OutOfRangeFails ==
    (call.fn = "oaepDecrypt" /\ ~call.chained /\ pc # "idle"
        /\ ValueOutOfRange) =>
        ReturnedNone

=============================================================================
